---- MODULE Spec2Model ----
(***************************************************************************)
(* State-change events of the ECS agent (package statechange) and their    *)
(* String() renderers.  A rendered string is a sequence of text fragments; *)
(* the empty string is the empty sequence, so an empty Go string never     *)
(* contributes a fragment.  A String() call is a sequence of steps: the    *)
(* calls it makes on the metadata getter are separate steps, between which *)
(* the owner of the backing task/container object may change that object.  *)
(***************************************************************************)
EXTENDS Integers, Sequences, FiniteSets

VARIABLES
  event,    \* the event value being rendered (fixed after construction)
  obj,      \* the object behind event.MetadataGetter
  pc,       \* position of the running String() call, "idle" between calls
  res,      \* the local res of the running String() call
  mark,     \* Len(res) before the latest append to res
  idx,      \* loop position in the range loops of TaskStateChange.String
  isNil,    \* what GetContainerIsNil / GetTaskIsNil returned in this call
  vals,     \* what the other accessors returned in this call, in call order
  calls,    \* getter methods invoked in this call, each with whether obj was void
  hist,     \* the states obj went through during this call
  last,     \* the latest completed call on event, if any: the string it
            \* returned and the number of changes of obj before it began
  startMut, \* number of changes of obj when the running call began
  nmut      \* number of changes of obj so far

vars == <<event, obj, pc, res, mark, idx, isNil, vals, calls, hist, last, startMut, nmut>>

\* ------------------------------------------------------------------ bounds
MaxBindings == 1
MaxSub == 2
MaxMutations == 1

\* ------------------------------------------------------------- text helpers
\* A Go string as fragments: "" is no fragment.
Str(s) == IF s = "" THEN <<>> ELSE <<s>>

DigitChar(d) == <<"0", "1", "2", "3", "4", "5", "6", "7", "8", "9">>[d + 1]

RECURSIVE Digits(_)
Digits(n) == IF n < 10 THEN <<DigitChar(n)>>
             ELSE Digits(n \div 10) \o <<DigitChar(n % 10)>>

\* strconv.Itoa
Itoa(n) == IF n < 0 THEN <<"-">> \o Digits(0 - n) ELSE Digits(n)

\* fmt's %v of a bool
BoolString(b) == IF b THEN "true" ELSE "false"

\* whether sequence p occurs in s as a contiguous run
Contains(s, p) ==
  \E k \in 0..(Len(s) - Len(p)) : SubSeq(s, k + 1, k + Len(p)) = p

StartsWith(s, p) == Len(p) <= Len(s) /\ SubSeq(s, 1, Len(p)) = p

\* sequences over S of length at most n
RECURSIVE SeqsUpTo(_, _)
SeqsUpTo(S, n) ==
  IF n = 0 THEN {<<>>}
  ELSE LET shorter == SeqsUpTo(S, n - 1)
       IN  shorter \cup {Append(q, x) : q \in {r \in shorter : Len(r) = n - 1}, x \in S}

\* ------------------------------------------------------- external renderings
\* apicontainerstatus.ContainerStatus.String()
ContainerStatusString(s) ==
  CASE s = "ContainerRunning" -> "RUNNING"
    [] s = "ContainerStopped" -> "STOPPED"
    [] OTHER -> "NONE"

\* apicontainerstatus.ContainerStatus.Terminal()
ContainerStatusTerminal(s) == s = "ContainerStopped"

\* apitaskstatus.TaskStatus.String()
TaskStatusString(s) ==
  CASE s = "TaskRunning" -> "RUNNING"
    [] s = "TaskStopped" -> "STOPPED"
    [] OTHER -> "NONE"

\* attachment.AttachmentStatus.String(); the text of a status outside the
\* named domain is taken to be empty, the weakest case for the renderer
AttachmentStatusString(s) ==
  CASE s = "AttachmentAttached" -> "ATTACHED"
    [] s = "AttachmentDetached" -> "DETACHED"
    [] OTHER -> ""

\* ni.ENIAttachment.String(): the attachment's own detail rendering
ENIAttachmentString(a) == Str(a.detail)

\* ecs.NetworkBinding.String(), ecs.ContainerStateChange.String(),
\* ecs.ManagedAgentStateChange.String(): one fragment per value
EcsString(x) == <<"{", x, "}">>

\* time.Time.String()
TimeString(t) ==
  IF t = "zero" THEN "0001-01-01 00:00:00 +0000 UTC"
  ELSE "2024-05-01 10:00:00 +0000 UTC"

\* fmt's %v of a slice of Stringers: [a b c]
RECURSIVE SliceElems(_)
SliceElems(bs) ==
  IF bs = <<>> THEN <<>>
  ELSE IF Len(bs) = 1 THEN EcsString(bs[1])
  ELSE EcsString(bs[1]) \o <<" ">> \o SliceElems(Tail(bs))

SliceString(bs) == <<"[">> \o SliceElems(bs) \o <<"]">>

\* ------------------------------------------------------------------ values
Nil == "nil"
Getter == "getter"

\* *int, *ni.ENIAttachment: <<>> is the nil pointer, <<v>> points at v
ExitCodes == {<<>>, <<0>>, <<137>>}
Reasons == {"", "OOMKilled"}
ContainerStatuses == {"ContainerRunning", "ContainerStopped"}
TaskStatuses == {"TaskRunning"}
TimeValues == {"zero", "t1"}
SentStatuses == {"NONE", "RUNNING"}
RuntimeIDs == {"", "rt1"}

Attachments ==
  [AttachmentARN : {"", "arn:att"},
   Status : {"AttachmentNone", "AttachmentAttached"},
   detail : {"", "eni-1"}]

\* type ContainerStateChange (the fields String reads)
ContainerStateChanges ==
  [kind : {"container"},
   ContainerName : {"web"},
   Status : ContainerStatuses,
   ExitCode : ExitCodes,
   Reason : Reasons,
   NetworkBindings : SeqsUpTo({"b1"}, MaxBindings),
   MetadataGetter : {Nil, Getter}]

\* type TaskStateChange (the fields String reads)
TaskStateChanges ==
  {t \in [kind : {"task"},
          TaskARN : {"arn:1"},
          Status : TaskStatuses,
          Attachment : {<<>>, <<[AttachmentARN |-> "arn:att", Status |-> "AttachmentAttached", detail |-> "eni-1"]>>},
          Containers : SeqsUpTo({"c1", "c2"}, MaxSub),
          ManagedAgents : SeqsUpTo({"m1", "m2"}, MaxSub),
          MetadataGetter : {Nil, Getter}] :
     Len(t.Containers) + Len(t.ManagedAgents) <= MaxSub}

\* type AttachmentStateChange
AttachmentStateChanges ==
  [kind : {"attachment"}, Attachment : {<<>>} \cup {<<a>> : a \in Attachments}]

\* The object behind a ContainerMetadataGetter; when it is void its other
\* fields carry no information.  The live states are those of a container's
\* life: a status is acknowledged as RUNNING only once a runtime ID exists.
VoidContainer ==
  [isNil |-> TRUE, sentStatus |-> "", runtimeID |-> "", isEssential |-> FALSE]

LiveContainers ==
  {o \in [isNil : {FALSE}, sentStatus : SentStatuses, runtimeID : RuntimeIDs,
          isEssential : BOOLEAN] :
     o.sentStatus = "RUNNING" => o.runtimeID # ""}

\* The object behind a TaskMetadataGetter.  The live states are those of a
\* task's life: a timestamp is set only after the ones before it, and the
\* status is acknowledged as RUNNING once pulling has stopped.
VoidTask ==
  [isNil |-> TRUE, sentStatus |-> "", pullStartedAt |-> "zero",
   pullStoppedAt |-> "zero", executionStoppedAt |-> "zero"]

LiveTasks ==
  {o \in [isNil : {FALSE}, sentStatus : SentStatuses, pullStartedAt : TimeValues,
          pullStoppedAt : TimeValues, executionStoppedAt : TimeValues] :
     /\ o.pullStoppedAt # "zero" => o.pullStartedAt # "zero"
     /\ o.executionStoppedAt # "zero" => o.pullStoppedAt # "zero"
     /\ o.sentStatus = "RUNNING" <=> o.pullStoppedAt # "zero"}

VoidObject(e) == IF e.kind = "task" THEN VoidTask ELSE VoidContainer
LiveObjects(e) == IF e.kind = "task" THEN LiveTasks ELSE LiveContainers

HasGetter(e) == e.kind # "attachment" /\ e.MetadataGetter # Nil

\* ------------------------------------------------------------- construction
Init ==
  /\ event \in ContainerStateChanges \cup TaskStateChanges \cup AttachmentStateChanges
  /\ obj \in IF HasGetter(event) THEN LiveObjects(event) \cup {VoidObject(event)}
             ELSE {VoidObject(event)}
  /\ pc = "idle"
  /\ res = <<>>
  /\ mark = 0
  /\ idx = 1
  /\ isNil = FALSE
  /\ vals = <<>>
  /\ calls = <<>>
  /\ hist = {}
  /\ last = <<>>
  /\ startMut = 0
  /\ nmut = 0

\* ------------------------------------------- the owner of the backing object
\* The task engine updates the live object behind the getter (under its own
\* lock, so one update may change several fields at once).
MutateObject ==
  /\ HasGetter(event)
  /\ pc # "panicked"
  /\ nmut < MaxMutations
  /\ ~obj.isNil
  /\ \E o \in LiveObjects(event) \ {obj} : obj' = o
  /\ nmut' = nmut + 1
  /\ hist' = IF pc = "idle" THEN hist ELSE hist \cup {obj'}
  /\ UNCHANGED <<event, pc, res, mark, idx, isNil, vals, calls, last, startMut>>

\* The object behind the getter goes away.
VoidTheObject ==
  /\ HasGetter(event)
  /\ pc # "panicked"
  /\ nmut < MaxMutations
  /\ ~obj.isNil
  /\ obj' = VoidObject(event)
  /\ nmut' = nmut + 1
  /\ hist' = IF pc = "idle" THEN hist ELSE hist \cup {obj'}
  /\ UNCHANGED <<event, pc, res, mark, idx, isNil, vals, calls, last, startMut>>

\* ------------------------------------------------------------ getter calls
\* One call of a getter method.
Invoke(method) == calls' = Append(calls, [m |-> method, void |-> obj.isNil])

\* An accessor other than the nil-check: it returns the field of the live
\* object; on a void object the call is unsafe: it panics, or returns anything.
Accessor(method, value, Domain, next) ==
  /\ Invoke(method)
  /\ \/ /\ ~obj.isNil
        /\ vals' = Append(vals, value)
        /\ pc' = next
     \/ /\ obj.isNil
        /\ vals' = vals
        /\ pc' = "panicked"
     \/ /\ obj.isNil
        /\ \E v \in Domain : vals' = Append(vals, v)
        /\ pc' = next

\* res += s
AppendRes(s) == res' = res \o s /\ mark' = Len(res)

\* A String() call begins: nothing of an earlier call is left.
BeginCall ==
  /\ pc = "idle"
  /\ isNil' = FALSE
  /\ vals' = <<>>
  /\ calls' = <<>>
  /\ hist' = {obj}
  /\ startMut' = nmut
  /\ idx' = 1

\* return res
ReturnRes ==
  /\ pc = "return"
  /\ pc' = "idle"
  /\ last' = <<[s |-> res, from |-> startMut]>>
  /\ UNCHANGED <<event, obj, res, mark, idx, isNil, vals, calls, hist, startMut, nmut>>

\* ------------------------------------------- ContainerStateChange.String
ContainerPrefix(c) ==
  <<"containerName=">> \o Str(c.ContainerName)
    \o <<" containerStatus=">> \o Str(ContainerStatusString(c.Status))

\* mutant: res is kept from the call before (res += instead of res :=)
ContainerString_Prefix_Accumulating ==
  /\ event.kind = "container"
  /\ BeginCall
  /\ res' = res \o ContainerPrefix(event)
  /\ mark' = 0
  /\ pc' = "exitcode"
  /\ UNCHANGED <<event, obj, last, nmut>>

ContainerString_Prefix ==
  /\ event.kind = "container"
  /\ BeginCall
  /\ res' = ContainerPrefix(event)
  /\ mark' = 0
  /\ pc' = "exitcode"
  /\ UNCHANGED <<event, obj, last, nmut>>

\* mutant: the exit code is shown only with a terminal status
ExitCodeClause_TerminalOnly(c) ==
  IF c.ExitCode # <<>> /\ ContainerStatusTerminal(c.Status)
  THEN <<" containerExitCode=">> \o Itoa(c.ExitCode[1])
  ELSE <<>>

ExitCodeClause(c) ==
  IF c.ExitCode # <<>> THEN <<" containerExitCode=">> \o Itoa(c.ExitCode[1])
  ELSE <<>>

\* mutant: rendering consumes the exit code of the event
ContainerString_ExitCode_Clearing ==
  /\ pc = "exitcode"
  /\ AppendRes(ExitCodeClause(event))
  /\ event' = [event EXCEPT !.ExitCode = <<>>]
  /\ pc' = "reason"
  /\ UNCHANGED <<obj, idx, isNil, vals, calls, hist, last, startMut, nmut>>

ContainerString_ExitCode ==
  /\ pc = "exitcode"
  /\ AppendRes(ExitCodeClause(event))
  /\ pc' = "reason"
  /\ UNCHANGED <<event, obj, idx, isNil, vals, calls, hist, last, startMut, nmut>>

\* mutant: the reason clause is appended without the test for ""
ReasonClause_Unconditional(c) == <<" containerReason=">> \o Str(c.Reason)

ReasonClause(c) ==
  IF c.Reason # "" THEN <<" containerReason=">> \o Str(c.Reason) ELSE <<>>

ContainerString_Reason ==
  /\ pc = "reason"
  /\ AppendRes(ReasonClause(event))
  /\ pc' = "bindings"
  /\ UNCHANGED <<event, obj, idx, isNil, vals, calls, hist, last, startMut, nmut>>

NetworkBindingsClause(c) ==
  IF Len(c.NetworkBindings) # 0
  THEN <<" containerNetworkBindings=">> \o SliceString(c.NetworkBindings)
  ELSE <<>>

ContainerString_NetworkBindings ==
  /\ pc = "bindings"
  /\ AppendRes(NetworkBindingsClause(event))
  /\ pc' = "cgetter"
  /\ UNCHANGED <<event, obj, idx, isNil, vals, calls, hist, last, startMut, nmut>>

\* mutant: the result of GetContainerIsNil is not tested
ContainerString_GetContainerIsNil_Unchecked ==
  /\ pc = "cgetter"
  /\ \/ /\ event.MetadataGetter = Nil
        /\ pc' = "return"
        /\ UNCHANGED <<isNil, calls>>
     \/ /\ event.MetadataGetter # Nil
        /\ Invoke("GetContainerIsNil")
        /\ isNil' = obj.isNil
        /\ pc' = "csent"
  /\ UNCHANGED <<event, obj, res, mark, idx, vals, hist, last, startMut, nmut>>

\* c.MetadataGetter != nil && !c.MetadataGetter.GetContainerIsNil()
ContainerString_GetContainerIsNil ==
  /\ pc = "cgetter"
  /\ \/ /\ event.MetadataGetter = Nil
        /\ pc' = "return"
        /\ UNCHANGED <<isNil, calls>>
     \/ /\ event.MetadataGetter # Nil
        /\ Invoke("GetContainerIsNil")
        /\ isNil' = obj.isNil
        /\ pc' = IF obj.isNil THEN "return" ELSE "csent"
  /\ UNCHANGED <<event, obj, res, mark, idx, vals, hist, last, startMut, nmut>>

ContainerString_GetContainerSentStatusString ==
  /\ pc = "csent"
  /\ Accessor("GetContainerSentStatusString", obj.sentStatus, SentStatuses, "cruntimeid")
  /\ UNCHANGED <<event, obj, res, mark, idx, isNil, hist, last, startMut, nmut>>

\* mutant: the runtime ID is taken from the sent-status accessor
ContainerString_GetContainerRuntimeID_WrongAccessor ==
  /\ pc = "cruntimeid"
  /\ Accessor("GetContainerSentStatusString", obj.sentStatus, SentStatuses, "cessential")
  /\ UNCHANGED <<event, obj, res, mark, idx, isNil, hist, last, startMut, nmut>>

ContainerString_GetContainerRuntimeID ==
  /\ pc = "cruntimeid"
  /\ Accessor("GetContainerRuntimeID", obj.runtimeID, RuntimeIDs, "cessential")
  /\ UNCHANGED <<event, obj, res, mark, idx, isNil, hist, last, startMut, nmut>>

ContainerString_GetContainerIsEssential ==
  /\ pc = "cessential"
  /\ Accessor("GetContainerIsEssential", obj.isEssential, BOOLEAN, "cmetadata")
  /\ UNCHANGED <<event, obj, res, mark, idx, isNil, hist, last, startMut, nmut>>

ContainerMetadataClause(v) ==
  <<" containerKnownSentStatus=">> \o Str(v[1])
    \o <<" containerRuntimeID=">> \o Str(v[2])
    \o <<" containerIsEssential=">> \o Str(BoolString(v[3]))

ContainerString_Metadata ==
  /\ pc = "cmetadata"
  /\ AppendRes(ContainerMetadataClause(vals))
  /\ pc' = "return"
  /\ UNCHANGED <<event, obj, idx, isNil, vals, calls, hist, last, startMut, nmut>>

\* ------------------------------------------------ TaskStateChange.String
TaskPrefix(change) ==
  Str(change.TaskARN) \o <<" -> ">> \o Str(TaskStatusString(change.Status))

TaskString_Prefix ==
  /\ event.kind = "task"
  /\ BeginCall
  /\ res' = TaskPrefix(event)
  /\ mark' = 0
  /\ pc' = "tgetter"
  /\ UNCHANGED <<event, obj, last, nmut>>

\* mutant: only the interface value is tested, GetTaskIsNil is not called
TaskString_GetTaskIsNil_Skipped ==
  /\ pc = "tgetter"
  /\ \/ /\ event.MetadataGetter = Nil
        /\ pc' = "attachment"
        /\ UNCHANGED <<isNil, calls>>
     \/ /\ event.MetadataGetter # Nil
        /\ pc' = "tsent"
        /\ UNCHANGED <<isNil, calls>>
  /\ UNCHANGED <<event, obj, res, mark, idx, vals, hist, last, startMut, nmut>>

\* change.MetadataGetter != nil && !change.MetadataGetter.GetTaskIsNil()
TaskString_GetTaskIsNil ==
  /\ pc = "tgetter"
  /\ \/ /\ event.MetadataGetter = Nil
        /\ pc' = "attachment"
        /\ UNCHANGED <<isNil, calls>>
     \/ /\ event.MetadataGetter # Nil
        /\ Invoke("GetTaskIsNil")
        /\ isNil' = obj.isNil
        /\ pc' = IF obj.isNil THEN "attachment" ELSE "tsent"
  /\ UNCHANGED <<event, obj, res, mark, idx, vals, hist, last, startMut, nmut>>

TaskString_GetTaskSentStatusString ==
  /\ pc = "tsent"
  /\ Accessor("GetTaskSentStatusString", obj.sentStatus, SentStatuses, "tpullstarted")
  /\ UNCHANGED <<event, obj, res, mark, idx, isNil, hist, last, startMut, nmut>>

TaskString_GetTaskPullStartedAt ==
  /\ pc = "tpullstarted"
  /\ Accessor("GetTaskPullStartedAt", obj.pullStartedAt, TimeValues, "tpullstopped")
  /\ UNCHANGED <<event, obj, res, mark, idx, isNil, hist, last, startMut, nmut>>

TaskString_GetTaskPullStoppedAt ==
  /\ pc = "tpullstopped"
  /\ Accessor("GetTaskPullStoppedAt", obj.pullStoppedAt, TimeValues, "texecstopped")
  /\ UNCHANGED <<event, obj, res, mark, idx, isNil, hist, last, startMut, nmut>>

TaskString_GetTaskExecutionStoppedAt ==
  /\ pc = "texecstopped"
  /\ Accessor("GetTaskExecutionStoppedAt", obj.executionStoppedAt, TimeValues, "tmetadata")
  /\ UNCHANGED <<event, obj, res, mark, idx, isNil, hist, last, startMut, nmut>>

TaskMetadataClause(v) ==
  <<", Known Sent: ">> \o Str(v[1])
    \o <<", PullStartedAt: ">> \o Str(TimeString(v[2]))
    \o <<", PullStoppedAt: ">> \o Str(TimeString(v[3]))
    \o <<", ExecutionStoppedAt: ">> \o Str(TimeString(v[4]))

TaskString_Metadata ==
  /\ pc = "tmetadata"
  /\ AppendRes(TaskMetadataClause(vals))
  /\ pc' = "attachment"
  /\ UNCHANGED <<event, obj, idx, isNil, vals, calls, hist, last, startMut, nmut>>

\* mutant: the attachment is rendered the way AttachmentStateChange renders it
TaskAttachmentClause_AsStateChange(change) ==
  IF change.Attachment # <<>>
  THEN <<", ">> \o Str(change.Attachment[1].AttachmentARN) \o <<" -> ">>
         \o Str(AttachmentStatusString(change.Attachment[1].Status)) \o <<", ">>
         \o ENIAttachmentString(change.Attachment[1])
  ELSE <<>>

TaskAttachmentClause(change) ==
  IF change.Attachment # <<>>
  THEN <<", ">> \o ENIAttachmentString(change.Attachment[1])
  ELSE <<>>

TaskString_Attachment ==
  /\ pc = "attachment"
  /\ AppendRes(TaskAttachmentClause(event))
  /\ pc' = "containers"
  /\ UNCHANGED <<event, obj, idx, isNil, vals, calls, hist, last, startMut, nmut>>

ContainerChangeClause(containerChange) ==
  <<", container change: ">> \o EcsString(containerChange)

\* mutant: the container changes are walked from the last to the first
TaskString_Containers_Reversed ==
  /\ pc = "containers"
  /\ \/ /\ idx <= Len(event.Containers)
        /\ AppendRes(ContainerChangeClause(event.Containers[Len(event.Containers) + 1 - idx]))
        /\ idx' = idx + 1
        /\ pc' = pc
     \/ /\ idx > Len(event.Containers)
        /\ idx' = 1
        /\ pc' = "agents"
        /\ UNCHANGED <<res, mark>>
  /\ UNCHANGED <<event, obj, isNil, vals, calls, hist, last, startMut, nmut>>

\* for _, containerChange := range change.Containers
TaskString_Containers ==
  /\ pc = "containers"
  /\ \/ /\ idx <= Len(event.Containers)
        /\ AppendRes(ContainerChangeClause(event.Containers[idx]))
        /\ idx' = idx + 1
        /\ pc' = pc
     \/ /\ idx > Len(event.Containers)
        /\ idx' = 1
        /\ pc' = "agents"
        /\ UNCHANGED <<res, mark>>
  /\ UNCHANGED <<event, obj, isNil, vals, calls, hist, last, startMut, nmut>>

ManagedAgentClause(managedAgentChange) ==
  <<", managed agent: ">> \o EcsString(managedAgentChange)

\* for _, managedAgentChange := range change.ManagedAgents
TaskString_ManagedAgents ==
  /\ pc = "agents"
  /\ \/ /\ idx <= Len(event.ManagedAgents)
        /\ AppendRes(ManagedAgentClause(event.ManagedAgents[idx]))
        /\ idx' = idx + 1
        /\ pc' = pc
     \/ /\ idx > Len(event.ManagedAgents)
        /\ idx' = 1
        /\ pc' = "return"
        /\ UNCHANGED <<res, mark>>
  /\ UNCHANGED <<event, obj, isNil, vals, calls, hist, last, startMut, nmut>>

\* ------------------------------------------ AttachmentStateChange.String
\* mutant: only the attachment's own String() is returned
AttachmentStateChangeString_DetailOnly(change) ==
  IF change.Attachment # <<>> THEN ENIAttachmentString(change.Attachment[1]) ELSE <<>>

AttachmentStateChangeString(change) ==
  IF change.Attachment # <<>>
  THEN Str(change.Attachment[1].AttachmentARN) \o <<" -> ">>
         \o Str(AttachmentStatusString(change.Attachment[1].Status)) \o <<", ">>
         \o ENIAttachmentString(change.Attachment[1])
  ELSE <<>>

AttachmentString ==
  /\ event.kind = "attachment"
  /\ BeginCall
  /\ res' = AttachmentStateChangeString(event)
  /\ mark' = 0
  /\ pc' = "return"
  /\ UNCHANGED <<event, obj, last, nmut>>

Next ==
  \/ ContainerString_Prefix
  \/ ContainerString_ExitCode
  \/ ContainerString_Reason
  \/ ContainerString_NetworkBindings
  \/ ContainerString_GetContainerIsNil
  \/ ContainerString_GetContainerSentStatusString
  \/ ContainerString_GetContainerRuntimeID
  \/ ContainerString_GetContainerIsEssential
  \/ ContainerString_Metadata
  \/ TaskString_Prefix
  \/ TaskString_GetTaskIsNil
  \/ TaskString_GetTaskSentStatusString
  \/ TaskString_GetTaskPullStartedAt
  \/ TaskString_GetTaskPullStoppedAt
  \/ TaskString_GetTaskExecutionStoppedAt
  \/ TaskString_Metadata
  \/ TaskString_Attachment
  \/ TaskString_Containers
  \/ TaskString_ManagedAgents
  \/ AttachmentString
  \/ ReturnRes
  \/ MutateObject
  \/ VoidTheObject

Spec == Init /\ [][Next]_vars

\* ================================================================== claims
Returning(k) == event.kind = k /\ pc = "return"

\* the clause the metadata getter contributed to a container rendering
MetadataShown == HasGetter(event) /\ calls # <<>> /\ ~isNil

NilCheck == IF event.kind = "task" THEN "GetTaskIsNil" ELSE "GetContainerIsNil"

\* ---- C1
ExpectedContainerHead(c) ==
  <<"containerName=">> \o Str(c.ContainerName) \o <<" containerStatus=">>
    \o Str(IF c.Status = "ContainerRunning" THEN "RUNNING" ELSE "STOPPED")

\* C1: the string ContainerStateChange.String() returns begins with
\* containerName=<name> containerStatus=<status>, and a call panics only if
\* a getter is present and its nil-check reported a live object.
C1_PrefixAndNoPanic ==
  event.kind = "container" =>
    /\ pc = "return" => StartsWith(res, ExpectedContainerHead(event))
    /\ pc = "panicked" =>
         /\ event.MetadataGetter # Nil
         /\ calls # <<>>
         /\ calls[1].m = "GetContainerIsNil"
         /\ ~isNil

C1_Witness ==
  /\ Returning("container")
  /\ event.MetadataGetter # Nil
  /\ isNil
  /\ res = ExpectedContainerHead(event)

\* ---- C2
\* C2: in a String() call the nil-check is the first getter method invoked
\* and is invoked once; any other accessor is invoked only after the
\* nil-check returned false; without a getter no method is invoked.
C2_NilCheckFirst ==
  /\ ~HasGetter(event) => calls = <<>>
  /\ calls # <<>> => calls[1].m = NilCheck
  /\ \A k \in 2..Len(calls) : calls[k].m # NilCheck
  /\ Len(calls) > 1 => ~isNil
  /\ isNil => Len(calls) = 1

C2_Witness ==
  /\ Returning("task")
  /\ Len(calls) = 5
  /\ last # <<>>

\* ---- C3
ExpectedExitText(n) == IF n = 0 THEN <<"0">> ELSE <<"1", "3", "7">>

\* C3: the returned string holds the clause " containerExitCode=<int>" if
\* and only if ExitCode is set, whatever the status is.
C3_ExitCodeClauseIffSet ==
  Returning("container") =>
    /\ Contains(res, <<" containerExitCode=">>) <=> event.ExitCode # <<>>
    /\ event.ExitCode # <<>> =>
         Contains(res, <<" containerExitCode=">> \o ExpectedExitText(event.ExitCode[1]))

C3_Witness ==
  /\ Returning("container")
  /\ event.Status = "ContainerRunning"
  /\ event.ExitCode = <<0>>
  /\ Contains(res, <<" containerExitCode=", "0">>)

\* ---- C4
RECURSIVE ExpectedElems(_)
ExpectedElems(bs) ==
  IF bs = <<>> THEN <<>>
  ELSE <<"{", bs[1], "}">> \o (IF Len(bs) > 1 THEN <<" ">> ELSE <<>>)
         \o ExpectedElems(Tail(bs))

ExpectedContainerString(c, shown, v) ==
  ExpectedContainerHead(c)
    \o (IF c.ExitCode # <<>>
        THEN <<" containerExitCode=">> \o ExpectedExitText(c.ExitCode[1]) ELSE <<>>)
    \o (IF c.Reason # "" THEN <<" containerReason=", c.Reason>> ELSE <<>>)
    \o (IF c.NetworkBindings # <<>>
        THEN <<" containerNetworkBindings=", "[">> \o ExpectedElems(c.NetworkBindings) \o <<"]">>
        ELSE <<>>)
    \o (IF shown
        THEN <<" containerKnownSentStatus=">> \o Str(v[1])
               \o <<" containerRuntimeID=">> \o Str(v[2])
               \o <<" containerIsEssential=">> \o (IF v[3] THEN <<"true">> ELSE <<"false">>)
        ELSE <<>>)

\* C4: the string ContainerStateChange.String() returns is the name/status
\* prefix, then the exit-code clause iff ExitCode is set, then the reason
\* clause iff Reason is not empty, then the bindings clause iff there are
\* bindings, then the metadata clause iff a getter is supplied and its
\* nil-check returned false; nothing else, each once, in this order.
C4_ContainerClauseOrder ==
  Returning("container") => res = ExpectedContainerString(event, MetadataShown, vals)

C4_Witness ==
  /\ Returning("container")
  /\ event.ExitCode # <<>>
  /\ event.Reason # ""
  /\ event.NetworkBindings # <<>>
  /\ MetadataShown

\* ---- C5
RECURSIVE ExpectedSubEvents(_, _)
ExpectedSubEvents(label, xs) ==
  IF xs = <<>> THEN <<>>
  ELSE <<label, "{", xs[1], "}">> \o ExpectedSubEvents(label, Tail(xs))

ExpectedTimeText(t) ==
  IF t = "zero" THEN "0001-01-01 00:00:00 +0000 UTC" ELSE "2024-05-01 10:00:00 +0000 UTC"

ExpectedTaskString(t, shown, v) ==
  <<t.TaskARN, " -> ", "RUNNING">>
    \o (IF shown
        THEN <<", Known Sent: ">> \o Str(v[1])
               \o <<", PullStartedAt: ", ExpectedTimeText(v[2])>>
               \o <<", PullStoppedAt: ", ExpectedTimeText(v[3])>>
               \o <<", ExecutionStoppedAt: ", ExpectedTimeText(v[4])>>
        ELSE <<>>)
    \o (IF t.Attachment # <<>> THEN <<", ">> \o Str(t.Attachment[1].detail) ELSE <<>>)
    \o ExpectedSubEvents(", container change: ", t.Containers)
    \o ExpectedSubEvents(", managed agent: ", t.ManagedAgents)

\* C5: the string TaskStateChange.String() returns is "<taskARN> -> <status>",
\* then the metadata clause iff a getter is supplied and not void, then the
\* attachment clause iff Attachment is set, then one container clause per
\* element of Containers in order, then one managed-agent clause per element
\* of ManagedAgents in order.
C5_TaskClauseOrder ==
  Returning("task") => res = ExpectedTaskString(event, MetadataShown, vals)

C5_Witness ==
  /\ Returning("task")
  /\ Len(event.Containers) = 2
  /\ event.Containers[1] # event.Containers[2]
  /\ event.Attachment # <<>>
  /\ MetadataShown

\* ---- C6
\* C6: AttachmentStateChange.String() returns the empty string exactly when
\* Attachment is nil.
C6_EmptyIffNoAttachment ==
  Returning("attachment") => (res = <<>> <=> event.Attachment = <<>>)

C6_Witness ==
  /\ Returning("attachment")
  /\ event.Attachment # <<>>
  /\ event.Attachment[1].AttachmentARN = ""
  /\ event.Attachment[1].Status = "AttachmentNone"
  /\ event.Attachment[1].detail = ""
  /\ res = <<" -> ", ", ">>

\* ---- C7
\* C7 as claimed: a second String() call on the same event returns what the
\* call before it returned, also when the object behind the getter changed.
C7_SecondCallSameOutput ==
  (pc = "return" /\ last # <<>>) => res = last[1].s

\* C7: a String() call returns what the call before it on the same event
\* returned, provided the object behind the getter did not change from the
\* start of the earlier call to the end of the later one.
C7_SameOutputIfObjectUnchanged ==
  (pc = "return" /\ last # <<>> /\ last[1].from = nmut) => res = last[1].s

C7_Witness ==
  /\ pc = "return"
  /\ last # <<>>
  /\ last[1].from = nmut
  /\ MetadataShown
  /\ res = last[1].s

\* ---- C8
\* what TaskStateChange.String() appended for the attachment
AttachmentPortion == SubSeq(res, mark + 1, Len(res))

AfterAttachmentStep ==
  event.kind = "task" /\ pc = "containers" /\ idx = 1 /\ event.Attachment # <<>>

\* C8 as claimed: the attachment clause of a task rendering is the rendering
\* of AttachmentStateChange for the same attachment (after the separator).
C8_AttachmentClauseIsStateChangeString ==
  AfterAttachmentStep =>
    \/ AttachmentPortion = AttachmentStateChangeString([Attachment |-> event.Attachment])
    \/ AttachmentPortion =
         <<", ">> \o AttachmentStateChangeString([Attachment |-> event.Attachment])

\* C8: the attachment clause of a task rendering is ", " followed by the
\* attachment's own String(), which is the tail of the AttachmentStateChange
\* rendering: that rendering is "<attachmentARN> -> <status>" followed by
\* the task's attachment clause.
C8_AttachmentClauseIsDetail ==
  AfterAttachmentStep =>
    /\ AttachmentPortion = <<", ">> \o Str(event.Attachment[1].detail)
    /\ AttachmentStateChangeString([Attachment |-> event.Attachment]) =
         <<event.Attachment[1].AttachmentARN, " -> ", "ATTACHED">> \o AttachmentPortion

C8_Witness ==
  /\ AfterAttachmentStep
  /\ AttachmentPortion = <<", ", "eni-1">>

\* ---- C9
\* C9 as claimed: no event that is constructed and rendered has ExitCode set
\* with a status that is not terminal.
C9_ExitCodeOnlyIfTerminal ==
  (Returning("container") /\ event.ExitCode # <<>>) =>
     ContainerStatusTerminal(event.Status)

\* C9: the type admits ExitCode with any status; String() never writes
\* ExitCode or Status, so an event keeps through rendering what its producer
\* gave it.
C9_StringKeepsExitCodeAndStatus ==
  [][event.kind = "container" =>
       /\ event'.ExitCode = event.ExitCode
       /\ event'.Status = event.Status]_vars

C9_Witness ==
  /\ Returning("container")
  /\ event.ExitCode # <<>>
  /\ ~ContainerStatusTerminal(event.Status)
  /\ Contains(res, <<" containerExitCode=">>)

\* ---- C10
ValuesOf(o) ==
  IF event.kind = "task"
  THEN <<o.sentStatus, o.pullStartedAt, o.pullStoppedAt, o.executionStoppedAt>>
  ELSE <<o.sentStatus, o.runtimeID, o.isEssential>>

\* C10 as claimed: no accessor other than the nil-check runs while the
\* object is void, and the values of the metadata clause are those of one
\* state the object was in during the call.
C10_NoVoidAccessAndOneState ==
  /\ \A k \in 1..Len(calls) : calls[k].m # NilCheck => ~calls[k].void
  /\ pc \in {"cmetadata", "tmetadata"} =>
       \E o \in hist : ~o.isNil /\ ValuesOf(o) = vals

ReadAt(p, o) ==
  CASE p = "csent" -> o.sentStatus
    [] p = "cruntimeid" -> o.runtimeID
    [] p = "cessential" -> o.isEssential
    [] p = "tsent" -> o.sentStatus
    [] p = "tpullstarted" -> o.pullStartedAt
    [] p = "tpullstopped" -> o.pullStoppedAt
    [] p = "texecstopped" -> o.executionStoppedAt

AccessorPositions ==
  {"csent", "cruntimeid", "cessential",
   "tsent", "tpullstarted", "tpullstopped", "texecstopped"}

\* C10: String() takes no lock; each accessor call made on a live object
\* contributes the value the object holds at the moment of that call, so
\* the values of one metadata clause may come from different states, and an
\* accessor runs on a void object only if the object was voided after the
\* nil-check of the same call returned false.
C10_EachValueCurrentAtItsCall ==
  [][(pc \in AccessorPositions /\ pc' # pc) =>
       /\ ~isNil
       /\ ~obj.isNil => vals' = Append(vals, ReadAt(pc, obj))
       /\ obj.isNil => nmut > startMut]_vars

C10_Witness ==
  /\ pc \in {"cmetadata", "tmetadata"}
  /\ Cardinality(hist) > 1
  /\ \A o \in hist : ~o.isNil /\ ValuesOf(o) # vals

====
